---- MODULE Spec2Model ----
(***************************************************************************)
(* Model of scripts/transcribe.py: the batch transcription script.         *)
(*                                                                         *)
(* State: the filesystem (audio files, changed_files.txt, the voice-record *)
(* directory, transcript artifacts), the position of main(), the list of   *)
(* discovered audio files, the loop index, the success counter and what    *)
(* the script printed (error lines, final report).                         *)
(***************************************************************************)
EXTENDS Integers, Sequences, FiniteSets, TLC

(***************************************************************************)
(* Bounds of the model.                                                    *)
(***************************************************************************)
\* greatest number of lines of changed_files.txt
MaxLines == 3

(***************************************************************************)
(* Paths.  A path is its directory, the stem of its name and its suffix.   *)
(***************************************************************************)
P(d, s, e) == [dir |-> d, stem |-> s, ext |-> e]

\* the empty string: what a blank line strips to
NoPath == P("", "", "")

\* audio files the filesystem may hold
AudioPaths ==
    { P("voice-record", "a", ".mp3"),
      P("voice-record", "a", ".wav"),
      P("voice-record/sub", "a", ".mp3"),
      P("voice-record", "n", ".pdf"),
      P("other", "a", ".mp3") }

\* directories at or below Path('voice-record')
UnderRoot(p) == p.dir \in {"voice-record", "voice-record/sub"}

\* pathlib's Path.with_suffix('.txt'): the suffix of the name is replaced
with_suffix_txt(p) == [p EXCEPT !.ext = ".txt"]

TranscriptPaths == { with_suffix_txt(p) : p \in AudioPaths }

FsPaths == AudioPaths \cup TranscriptPaths

(***************************************************************************)
(* Files.  A file exists or not, and holds a sequence of written chunks;   *)
(* a chunk is a sequence of strings.                                       *)
(***************************************************************************)
NoFile == [exists |-> FALSE, data |-> <<>>]
File(d) == [exists |-> TRUE, data |-> d]

AudioData == << <<"<audio>">> >>
OldData == << <<"old transcript">>, <<"old line">> >>

(***************************************************************************)
(* Text.  A text is a sequence of tokens; " " and "\n" are whitespace.     *)
(***************************************************************************)
Whitespace == {" ", "\n"}

RECURSIVE lstrip(_)
lstrip(t) == IF t # <<>> /\ Head(t) \in Whitespace THEN lstrip(Tail(t)) ELSE t

RECURSIVE rstrip(_)
rstrip(t) ==
    IF t # <<>> /\ t[Len(t)] \in Whitespace
    THEN rstrip(SubSeq(t, 1, Len(t) - 1))
    ELSE t

\* str.strip()
strip(t) == rstrip(lstrip(t))

(***************************************************************************)
(* format_timestamp.  Times are in tenths of a second, to carry the        *)
(* sub-second part of Whisper's float seconds.                             *)
(***************************************************************************)
Digit == <<"0", "1", "2", "3", "4", "5", "6", "7", "8", "9">>

RECURSIVE Decimal(_)
Decimal(n) ==
    IF n < 10 THEN <<Digit[n + 1]>> ELSE Decimal(n \div 10) \o <<Digit[(n % 10) + 1]>>

\* the format spec :02d
Pad02d(n) == IF n < 10 THEN <<"0">> \o Decimal(n) ELSE Decimal(n)

\* a format_timestamp that takes the minutes from all the seconds
format_timestamp_total_minutes(seconds) ==
    LET hours == seconds \div 36000
        minutes == seconds \div 600
        secs == (seconds % 600) \div 10
    IN Pad02d(hours) \o <<":">> \o Pad02d(minutes) \o <<":">> \o Pad02d(secs)

format_timestamp(seconds) ==
    LET hours == seconds \div 36000
        minutes == (seconds % 36000) \div 600
        secs == (seconds % 600) \div 10
    IN Pad02d(hours) \o <<":">> \o Pad02d(minutes) \o <<":">> \o Pad02d(secs)

(***************************************************************************)
(* What model.transcribe may return.                                       *)
(***************************************************************************)
Seg(s, e, t) == [start |-> s, end |-> e, text |-> t]

Results ==
    { [text |-> <<" ", "a", " ", "b">>,
       segments |-> << Seg(0, 15, <<" ", "a">>), Seg(15, 30, <<" ", "b">>) >>],
      [text |-> <<"c">>,
       segments |-> << Seg(35990, 36610, <<"c", " ">>) >>] }

NoResult == [text |-> <<>>, segments |-> <<>>]

(***************************************************************************)
(* The transcript artifact: one chunk per f.write call.                    *)
(***************************************************************************)
SegmentLine(segment) ==
    <<"[">> \o format_timestamp(segment.start) \o <<" -> ">>
        \o format_timestamp(segment.end) \o <<"] ">>
        \o strip(segment.text) \o <<"\n">>

TranscriptChunks(audio_path, r) ==
    << <<"Transcript of: ", audio_path.stem, audio_path.ext, "\n">>,
       <<"Language: Cantonese/Chinese", "\n">>,
       <<"=*60", "\n", "\n">>,
       strip(r.text),
       <<"\n", "\n">>,
       <<"=*60", "\n">>,
       <<"Detailed segments:", "\n", "\n">> >>
    \o [i \in 1..Len(r.segments) |-> SegmentLine(r.segments[i])]

(***************************************************************************)
(* changed_files.txt: one path per line.  A path is written as the tokens  *)
(* dir, "/", stem, suffix, possibly after "./".                            *)
(***************************************************************************)
Str(p) == <<p.dir, "/", p.stem, p.ext>>

\* pathlib's Path(f): a leading "./" is dropped, the rest is split
Path(f) ==
    LET u == IF Head(f) = "./" THEN Tail(f) ELSE f
    IN P(u[1], u[3], u[4])

Lines ==
    { <<"\n">>,
      <<" ">> \o Str(P("voice-record", "a", ".mp3")) \o <<" ", "\n">>,
      <<"./">> \o Str(P("voice-record", "a", ".wav")) \o <<"\n">>,
      Str(P("other", "gone", ".mp3")) \o <<"\n">> }

\* the paths the lines name
Named == { Path(strip(l)) : l \in { k \in Lines : strip(k) # <<>> } }

NoListFile == [exists |-> FALSE, lines |-> <<>>]

ListFiles ==
    {NoListFile} \cup
    { [exists |-> TRUE, lines |-> l] :
        l \in UNION { [1..n -> Lines] : n \in 0..MaxLines } }

(***************************************************************************)
(* State.                                                                  *)
(***************************************************************************)
VARIABLES
    fs,                 \* the files: FsPaths -> file
    voice_record_dir,   \* Path('voice-record'): "missing", "file" or "dir"
    changed_files_txt,  \* Path('changed_files.txt'): exists, lines
    pc,                 \* where the script is
    audio_files,        \* main: the discovered audio files
    idx,                \* main: position of the for loop in audio_files
    success_count,      \* main: success_count
    result,             \* transcribe_audio_file: result of model.transcribe
    calls,              \* the calls of model.transcribe (path, raised or not),
                        \* in order
    writes,             \* the opens for writing that succeeded (path, audio file,
                        \* position, result, all written or not), in order
    failures,           \* the printed error lines (path, reason, position), in order
    report,             \* what main printed last
    exit_status         \* <<>> while running, then <<status>>

\* the loop over result['segments'] of transcribe_audio_file, on its own
VARIABLES
    segments,           \* result['segments']
    written_lines       \* the segment lines written so far

\* scripts/convert_to_mp3.py
VARIABLES
    conv_pc,            \* where the script is
    wav_files,          \* main: wav_files
    wav_present,        \* the WAV files that exist
    mp3_present,        \* the MP3 files that exist
    conv_idx,           \* main: position of the for loop in wav_files
    converted_count,    \* main: converted_count
    conv_log            \* what happened to each file (file, ffmpeg ok, unlinked)

\* scripts/execute_on_colab.py
VARIABLES
    nb_pc,              \* where the script is
    nb_env,             \* the environment conditions
    nb_stack,           \* the call sites of the execute_locally frames
    nb_trace,           \* the functions entered, in order
    nb_result           \* <<>> while running, then <<what execute_via_colab_api gave>>

env == <<fs, voice_record_dir, changed_files_txt>>
transcribe_vars ==
    <<fs, voice_record_dir, changed_files_txt, pc, audio_files, idx,
      success_count, result, calls, writes, failures, report, exit_status>>
segment_vars == <<segments, written_lines>>
convert_vars ==
    <<conv_pc, wav_files, wav_present, mp3_present, conv_idx, converted_count,
      conv_log>>
notebook_vars == <<nb_pc, nb_env, nb_stack, nb_trace, nb_result>>
\* the variables of the other scripts, which a run of transcribe.py leaves alone
other_scripts == <<segment_vars, convert_vars, notebook_vars>>
vars == <<transcribe_vars, segment_vars, convert_vars, notebook_vars>>

\* a script that is not running
TranscribeOff ==
    /\ fs = [p \in FsPaths |-> NoFile]
    /\ voice_record_dir = "missing"
    /\ changed_files_txt = NoListFile
    /\ pc = "off"
    /\ audio_files = <<>>
    /\ idx = 1
    /\ success_count = 0
    /\ result = NoResult
    /\ calls = <<>>
    /\ writes = <<>>
    /\ failures = <<>>
    /\ report = <<>>
    /\ exit_status = <<>>
SegmentsOff == segments = <<>> /\ written_lines = <<>>
ConvertOff ==
    /\ conv_pc = "off"
    /\ wav_files = <<>>
    /\ wav_present = {}
    /\ mp3_present = {}
    /\ conv_idx = 1
    /\ converted_count = 0
    /\ conv_log = <<>>
NotebookOff ==
    /\ nb_pc = "off"
    /\ nb_env = [api_key |-> FALSE, notebook |-> FALSE, readable |-> FALSE,
                 papermill |-> FALSE, installs |-> FALSE, executes |-> FALSE,
                 system_raises |-> FALSE]
    /\ nb_stack = <<>>
    /\ nb_trace = <<>>
    /\ nb_result = <<>>

\* Path.exists(): a path outside FsPaths names no file
exists(f, p) == p \in DOMAIN f /\ f[p].exists

(***************************************************************************)
(* Discovery, lines 77-102 of main.                                        *)
(***************************************************************************)
audio_extensions == <<".mp3", ".wav", ".m4a", ".flac", ".ogg">>

\* every ordering of a finite set
Orderings(S) ==
    { s \in [1..Cardinality(S) -> S] :
        \A i, j \in 1..Cardinality(S) : i # j => s[i] # s[j] }

\* glob in place of rglob: the files of the directory itself
globTopLevel(f, dir, ext) ==
    IF dir # "dir"
    THEN {<<>>}
    ELSE Orderings({ p \in AudioPaths :
                       p.dir = "voice-record" /\ exists(f, p) /\ p.ext = ext })

\* voice_record_dir.rglob('*' + ext): the files at or below the directory
\* whose name ends in ext, in the order the filesystem lists them; nothing
\* when the path is no directory
rglob(f, dir, ext) ==
    IF dir # "dir"
    THEN {<<>>}
    ELSE Orderings({ p \in AudioPaths : UnderRoot(p) /\ exists(f, p) /\ p.ext = ext })

\* lines 83-88: audio_files after the loop over the extensions
RECURSIVE ScanExtensions(_, _, _)
ScanExtensions(f, dir, exts) ==
    IF exts = <<>>
    THEN {<<>>}
    ELSE { a \o b : a \in rglob(f, dir, Head(exts)),
                    b \in ScanExtensions(f, dir, Tail(exts)) }

\* a scan that raises when Path('voice-record') is no directory
ScanRaising(f, dir) ==
    IF dir # "dir"
    THEN {[raised |-> TRUE, files |-> <<>>]}
    ELSE { [raised |-> FALSE, files |-> s] : s \in ScanExtensions(f, dir, audio_extensions) }

\* lines 84-88: the scan, guarded by voice_record_dir.exists(); no statement
\* of it raises, whatever Path('voice-record') is
ScanVoiceRecord(f, dir) ==
    { [raised |-> FALSE, files |-> s] :
        s \in IF dir # "missing"
              THEN ScanExtensions(f, dir, audio_extensions)
              ELSE {<<>>} }

\* line 96: [line.strip() for line in f if line.strip()]
RECURSIVE StrippedLines(_)
StrippedLines(lines) ==
    IF lines = <<>>
    THEN <<>>
    ELSE (IF strip(Head(lines)) # <<>> THEN <<strip(Head(lines))>> ELSE <<>>)
            \o StrippedLines(Tail(lines))

\* the list without the exists() filter
ExistingPathsUnfiltered(f, changed_files) ==
    [i \in DOMAIN changed_files |-> Path(changed_files[i])]

\* line 102: [Path(f) for f in changed_files if Path(f).exists()]
RECURSIVE ExistingPaths(_, _)
ExistingPaths(f, changed_files) ==
    IF changed_files = <<>>
    THEN <<>>
    ELSE (IF exists(f, Path(Head(changed_files)))
          THEN <<Path(Head(changed_files))>>
          ELSE <<>>)
            \o ExistingPaths(f, Tail(changed_files))

(***************************************************************************)
(* transcribe_audio_file, lines 11-59.                                     *)
(***************************************************************************)
\* open(transcript_path, 'a'): the old content is kept
OpenA(file) == File(file.data)

\* line 37: open(transcript_path, 'w') truncates the file or creates it
OpenW(file) == File(<<>>)

\* f.write(chunk)
Write(file, chunk) == File(Append(file.data, chunk))

RECURSIVE WriteChunks(_, _)
WriteChunks(file, chunks) ==
    IF chunks = <<>> THEN file ELSE WriteChunks(Write(file, Head(chunks)), Tail(chunks))

\* a handler that lets a failure of model.transcribe through
CatchesOnlyIO(e) == e # "transcribe"

\* a handler for the failures of model.transcribe alone
CatchesOnlyTranscribe(e) == e = "transcribe"

\* line 57: except Exception catches whatever the try block raised, e being
\* "transcribe" (line 26), "open" (line 37) or "write" (lines 38-51)
Catches(e) == TRUE

\* a handler that writes a transcript holding the failure reason
HandlerWritesReason(f, audio_path, e) ==
    [f EXCEPT ![with_suffix_txt(audio_path)] = File(<< <<"Error: ", e, "\n">> >>)]

\* lines 57-59: the handler prints the error and returns False; it touches
\* no file
HandlerFs(f, audio_path, e) == f

\* a counter that counts every file, transcribed or not
CountedAlways(count, ok) == count + 1

\* lines 111-112: if transcribe_audio_file(...): success_count += 1
Counted(count, ok) == IF ok THEN count + 1 ELSE count

\* an exit status that tells whether an input failed
ExitStatusByFailures(failed) == IF failed = <<>> THEN 0 ELSE 1

\* lines 119-120: main() returned, the interpreter exits
ExitStatus(failed) == 0

\* the numbers of f.write calls done when a write raises: at the first
\* write, at result['text'] (line 41), at result['segments'] (line 47)
WriteFaultPoints == {0, 3, 7}

(***************************************************************************)
(* Initial states: a filesystem, before the script starts.                 *)
(***************************************************************************)
InitialFiles ==
    { f \in [FsPaths -> {NoFile, File(AudioData), File(OldData)}] :
        /\ \A p \in AudioPaths :
              f[p] \in IF UnderRoot(p) THEN {NoFile, File(AudioData)} ELSE {File(AudioData)}
        /\ \A p \in TranscriptPaths :
              f[p] \in IF p = P("voice-record", "a", ".txt")
                       THEN {NoFile, File(OldData)}
                       ELSE {NoFile} }

Init ==
    /\ fs \in InitialFiles
    /\ voice_record_dir \in {"missing", "file", "dir"}
    /\ (\E p \in FsPaths : UnderRoot(p) /\ exists(fs, p)) => voice_record_dir = "dir"
    /\ changed_files_txt \in ListFiles
    \* the files a list cannot name play no part in a run that reads the list
    /\ changed_files_txt.exists => \A p \in AudioPaths \ Named : exists(fs, p)
    /\ pc = "load"
    /\ audio_files = <<>>
    /\ idx = 1
    /\ success_count = 0
    /\ result = NoResult
    /\ calls = <<>>
    /\ writes = <<>>
    /\ failures = <<>>
    /\ report = <<>>
    /\ exit_status = <<>>
    /\ SegmentsOff
    /\ ConvertOff
    /\ NotebookOff

(***************************************************************************)
(* Steps of main, lines 68-117.                                            *)
(***************************************************************************)
\* main returns after printing msg
Return(msg) ==
    /\ pc' = "done"
    /\ report' = <<msg>>
    /\ exit_status' = <<ExitStatus(failures)>>

\* an exception raised in `where` leaves main: traceback, exit status 1
Uncaught(where) ==
    /\ pc' = "done"
    /\ report' = <<"Traceback", where>>
    /\ exit_status' = <<1>>

\* line 74: whisper.load_model("large")
LoadModel ==
    /\ pc = "load"
    /\ pc' = "discover"
    /\ UNCHANGED <<env, audio_files, idx, success_count, result, calls, writes,
                   failures, report, exit_status>>
    /\ UNCHANGED other_scripts

LoadModelFails ==
    /\ pc = "load"
    /\ Uncaught("load_model")
    /\ UNCHANGED <<env, audio_files, idx, success_count, result, calls, writes,
                   failures>>
    /\ UNCHANGED other_scripts

\* lines 80-92: no changed_files.txt, scan the voice-record directory
Scan ==
    /\ pc = "discover"
    /\ ~changed_files_txt.exists
    /\ \E d \in ScanVoiceRecord(fs, voice_record_dir) :
         IF d.raised
         THEN Uncaught("rglob") /\ UNCHANGED audio_files
         ELSE /\ audio_files' = d.files
              /\ IF d.files = <<>>
                 THEN Return("No audio files found.")
                 ELSE pc' = "loop" /\ UNCHANGED <<report, exit_status>>
    /\ UNCHANGED <<env, idx, success_count, result, calls, writes, failures>>
    /\ UNCHANGED other_scripts

\* lines 93-102: read changed_files.txt
ReadChangedFiles ==
    /\ pc = "discover"
    /\ changed_files_txt.exists
    /\ LET changed_files == StrippedLines(changed_files_txt.lines)
       IN IF changed_files = <<>>
          THEN Return("No audio files to transcribe.") /\ UNCHANGED audio_files
          ELSE /\ audio_files' = ExistingPaths(fs, changed_files)
               /\ pc' = "loop"
               /\ UNCHANGED <<report, exit_status>>
    /\ UNCHANGED <<env, idx, success_count, result, calls, writes, failures>>
    /\ UNCHANGED other_scripts

\* a handler after which the loop skips the next file
RaiseSkips(e) ==
    /\ failures' = Append(failures, [path |-> audio_files[idx], reason |-> e,
                                     at |-> idx])
    /\ success_count' = success_count
    /\ idx' = idx + 2
    /\ pc' = "loop"
    /\ UNCHANGED <<report, exit_status>>

\* a handler after which the same file is tried again
RaiseRetries(e) ==
    /\ failures' = Append(failures, [path |-> audio_files[idx], reason |-> e,
                                     at |-> idx])
    /\ success_count' = success_count
    /\ idx' = idx
    /\ pc' = "loop"
    /\ UNCHANGED <<report, exit_status>>

\* the try block raised e while transcribing audio_files[idx]
Raise(e) ==
    IF Catches(e)
    THEN /\ failures' = Append(failures, [path |-> audio_files[idx], reason |-> e,
                                          at |-> idx])
         /\ success_count' = Counted(success_count, FALSE)
         /\ idx' = idx + 1
         /\ pc' = "loop"
         /\ UNCHANGED <<report, exit_status>>
    ELSE /\ Uncaught("transcribe_audio_file")
         /\ UNCHANGED <<failures, success_count, idx>>

\* lines 110-111, 26-31: the next file goes to model.transcribe, which returns
Transcribe ==
    /\ pc = "loop"
    /\ idx <= Len(audio_files)
    /\ calls' = Append(calls, [path |-> audio_files[idx], raised |-> FALSE])
    /\ \E r \in Results : result' = r
    /\ pc' = "write"
    /\ UNCHANGED <<env, audio_files, idx, success_count, writes, failures, report,
                   exit_status>>
    /\ UNCHANGED other_scripts

\* lines 110-111, 26-31, 57-59: the next file goes to model.transcribe, which
\* raises
TranscribeFails ==
    /\ pc = "loop"
    /\ idx <= Len(audio_files)
    /\ calls' = Append(calls, [path |-> audio_files[idx], raised |-> TRUE])
    /\ fs' = HandlerFs(fs, audio_files[idx], "transcribe")
    /\ Raise("transcribe")
    /\ UNCHANGED <<voice_record_dir, changed_files_txt, audio_files, result, writes>>
    /\ UNCHANGED other_scripts

\* lines 33-55, 111-112: the transcript is written, True is returned
WriteTranscript ==
    /\ pc = "write"
    /\ LET audio_path == audio_files[idx]
           transcript_path == with_suffix_txt(audio_path)
       IN /\ fs' = [fs EXCEPT ![transcript_path] =
                      WriteChunks(OpenW(@), TranscriptChunks(audio_path, result))]
          /\ writes' = Append(writes, [path |-> transcript_path, audio |-> audio_path,
                                       at |-> idx, result |-> result,
                                       complete |-> TRUE])
    /\ success_count' = Counted(success_count, TRUE)
    /\ idx' = idx + 1
    /\ pc' = "loop"
    /\ result' = NoResult
    /\ UNCHANGED <<voice_record_dir, changed_files_txt, audio_files, calls, failures,
                   report, exit_status>>
    /\ UNCHANGED other_scripts

\* lines 37, 57-59: open raises, nothing is written
OpenFails ==
    /\ pc = "write"
    /\ fs' = HandlerFs(fs, audio_files[idx], "open")
    /\ Raise("open")
    /\ result' = NoResult
    /\ UNCHANGED <<voice_record_dir, changed_files_txt, audio_files, calls, writes>>
    /\ UNCHANGED other_scripts

\* lines 37-51, 57-59: a statement of the with block raises after k writes;
\* the file is closed with what was written
WriteFails ==
    /\ pc = "write"
    /\ \E k \in WriteFaultPoints :
         LET audio_path == audio_files[idx]
             transcript_path == with_suffix_txt(audio_path)
             chunks == TranscriptChunks(audio_path, result)
             written == [fs EXCEPT ![transcript_path] =
                           WriteChunks(OpenW(@), SubSeq(chunks, 1, k))]
         IN /\ fs' = HandlerFs(written, audio_path, "write")
            /\ writes' = Append(writes, [path |-> transcript_path, audio |-> audio_path,
                                         at |-> idx, result |-> result,
                                         complete |-> FALSE])
    /\ Raise("write")
    /\ result' = NoResult
    /\ UNCHANGED <<voice_record_dir, changed_files_txt, audio_files, calls>>
    /\ UNCHANGED other_scripts

\* lines 114-117: the loop is over, the summary is printed
Summary ==
    /\ pc = "loop"
    /\ idx > Len(audio_files)
    /\ Return("Successfully transcribed")
    /\ UNCHANGED <<env, audio_files, idx, success_count, result, calls, writes,
                   failures>>
    /\ UNCHANGED other_scripts

Next ==
    \/ LoadModel
    \/ LoadModelFails
    \/ Scan
    \/ ReadChangedFiles
    \/ Transcribe
    \/ TranscribeFails
    \/ WriteTranscript
    \/ OpenFails
    \/ WriteFails
    \/ Summary

Spec == Init /\ [][Next]_vars

(***************************************************************************)
(* The run summary, read off the script's state: attempted is              *)
(* len(audio_files), succeeded is success_count, the failures are the      *)
(* printed error lines.                                                    *)
(***************************************************************************)
LoadCrashed == report = <<"Traceback", "load_model">>
Crashed == report # <<>> /\ Head(report) = "Traceback"

\* main has ended without a traceback
Completed == pc = "done" /\ ~Crashed

\* main has got past discovery
Discovered == pc \in {"loop", "write"} \/ (pc = "done" /\ ~LoadCrashed)

attempted == Len(audio_files)
succeeded == success_count

\* the positions of audio_files whose transcript was written completely
SucceededAt == { writes[i].at : i \in { j \in DOMAIN writes : writes[j].complete } }
\* the positions of audio_files with a printed error line
FailedAt == { failures[i].at : i \in DOMAIN failures }

\* the lines of changed_files.txt that hold a path, and the path a line holds
HasPath(line) == \E i \in DOMAIN line : line[i] \notin Whitespace
LinePath(line) ==
    LET body == SelectSeq(line, LAMBDA t : t \notin Whitespace \cup {"./", "/"})
    IN P(body[1], body[2], body[3])
ListedPaths ==
    LET l == changed_files_txt.lines
        kept == SelectSeq(l, HasPath)
    IN [i \in DOMAIN kept |-> LinePath(kept[i])]

\* the k-th smallest element of a set of numbers
Kth(S, k) == CHOOSE i \in S : Cardinality({ j \in S : j < i }) = k - 1

(***************************************************************************)
(* C1.  When main ends with its summary, attempted = succeeded + the       *)
(* number of failures: attempted is the number of discovered (existing)    *)
(* inputs, succeeded the number of inputs whose transcript was produced,   *)
(* and every other attempted input has exactly one error line.             *)
(***************************************************************************)
C1_SummaryAccounting ==
    Completed =>
        /\ attempted = succeeded + Len(failures)
        /\ changed_files_txt.exists =>
              attempted = Cardinality({ i \in DOMAIN ListedPaths :
                                          exists(fs, ListedPaths[i]) })
        /\ succeeded = Cardinality(SucceededAt)
        /\ Len(failures) = Cardinality(FailedAt)
        /\ SucceededAt \cap FailedAt = {}
        /\ SucceededAt \cup FailedAt = 1..attempted

\* the scenario [a, missing, b] with the capability failing for b alone
C1_Witness ==
    /\ Completed
    /\ changed_files_txt.exists
    /\ Len(ListedPaths) = 3
    /\ exists(fs, ListedPaths[1])
    /\ ~exists(fs, ListedPaths[2])
    /\ exists(fs, ListedPaths[3])
    /\ attempted = 2
    /\ succeeded = 1
    /\ Len(failures) = 1
    /\ failures[1].path = ListedPaths[3]
    /\ failures[1].reason = "transcribe"

(***************************************************************************)
(* C2.  A failure of model.transcribe for one input never leaves           *)
(* transcribe_audio_file as an exception: the run ends without a           *)
(* traceback, every input after the failed one has been given to           *)
(* model.transcribe, in order, and is either persisted or has its own      *)
(* error line.                                                             *)
(***************************************************************************)
C2_FailureDoesNotStopBatch ==
    pc = "done" =>
        \A i \in DOMAIN calls :
            calls[i].raised =>
                /\ ~Crashed
                /\ i \in FailedAt
                /\ \A j \in (i + 1)..Len(audio_files) :
                      /\ j \in DOMAIN calls
                      /\ calls[j].path = audio_files[j]
                      /\ j \in SucceededAt \cup FailedAt
                      /\ j \in SucceededAt => exists(fs, with_suffix_txt(audio_files[j]))

\* the first of two inputs failed to transcribe, the second was persisted
C2_Witness ==
    /\ pc = "done"
    /\ Len(audio_files) >= 2
    /\ calls[1].raised
    /\ 2 \in SucceededAt
    /\ exists(fs, with_suffix_txt(audio_files[2]))

(***************************************************************************)
(* C3.  As claimed: every attempted input whose transcription failed has   *)
(* a transcript artifact written for it by the run.                        *)
(***************************************************************************)
C3_Original ==
    pc = "done" =>
        \A i \in DOMAIN calls :
            calls[i].raised =>
                /\ exists(fs, with_suffix_txt(calls[i].path))
                /\ \E j \in DOMAIN writes : writes[j].at = i

(***************************************************************************)
(* C3, amended.  A step in which model.transcribe raises changes no file   *)
(* and opens none for writing: the failure reason is only printed, and     *)
(* the file at the input's transcript path, if any, stays as it was.       *)
(***************************************************************************)
C3_FailedInputWritesNothing ==
    [][(pc = "loop" /\ Len(calls') = Len(calls) + 1 /\ calls'[Len(calls')].raised)
          => /\ fs' = fs
             /\ writes' = writes
             /\ Len(failures') = Len(failures) + 1
             /\ failures'[Len(failures')].path = audio_files[idx]]_vars

\* a run in which an input failed to transcribe and has no artifact
C3_Witness ==
    /\ pc = "done"
    /\ \E i \in DOMAIN calls :
         /\ calls[i].raised
         /\ ~exists(fs, with_suffix_txt(calls[i].path))
         /\ \A j \in DOMAIN writes : writes[j].at # i

(***************************************************************************)
(* C4.  As claimed: an input whose artifact could not be written ends the  *)
(* run with an explicit failure, and no later input is transcribed.        *)
(***************************************************************************)
PersistenceFailedAt ==
    { failures[i].at : i \in { j \in DOMAIN failures :
                                 failures[j].reason \in {"open", "write"} } }

C4_Original ==
    pc = "done" =>
        \A i \in PersistenceFailedAt :
            /\ exit_status # <<0>>
            /\ Len(calls) <= i

(***************************************************************************)
(* C4, amended.  A persistence error (open or a write raises) is caught    *)
(* like any other error of the item: the input gets an error line and is   *)
(* not counted as a success, every later input is still given to           *)
(* model.transcribe, and the run ends with its summary and exit status 0.  *)
(***************************************************************************)
C4_PersistenceErrorIsPerItem ==
    pc = "done" =>
        \A i \in DOMAIN calls :
            (~calls[i].raised /\ i \notin SucceededAt) =>
                /\ i \in PersistenceFailedAt
                /\ succeeded <= attempted - 1
                /\ \A j \in (i + 1)..Len(audio_files) :
                      j \in DOMAIN calls /\ calls[j].path = audio_files[j]
                /\ report = <<"Successfully transcribed">>
                /\ exit_status = <<0>>

\* the artifact of the first of two inputs could not be written, the second
\* input was transcribed all the same
C4_Witness ==
    /\ pc = "done"
    /\ 1 \in PersistenceFailedAt
    /\ Len(calls) = 2
    /\ 2 \in SucceededAt
    /\ exit_status = <<0>>

(***************************************************************************)
(* C5.  With a changed_files.txt that names at least one path, the         *)
(* discovered audio files are exactly the named paths that exist, each as  *)
(* often as it is named, in the order of the lines.                        *)
(***************************************************************************)
ListedExisting == { i \in DOMAIN ListedPaths : exists(fs, ListedPaths[i]) }

C5_ExplicitListFiltered ==
    (Discovered /\ changed_files_txt.exists /\ ListedPaths # <<>>) =>
        /\ Len(audio_files) = Cardinality(ListedExisting)
        /\ \A k \in DOMAIN audio_files :
              /\ audio_files[k] = ListedPaths[Kth(ListedExisting, k)]
              /\ exists(fs, audio_files[k])

\* two existing paths around a missing one
C5_Witness ==
    /\ Discovered
    /\ changed_files_txt.exists
    /\ Len(ListedPaths) = 3
    /\ ListedExisting = {1, 3}
    /\ ListedPaths[1] # ListedPaths[3]
    /\ audio_files = <<ListedPaths[1], ListedPaths[3]>>

(***************************************************************************)
(* C6.  As claimed: when changed_files.txt is missing or names no path,    *)
(* the discovered audio files are the files at or below voice-record with  *)
(* one of the audio extensions.                                            *)
(***************************************************************************)
Scannable ==
    { p \in AudioPaths :
        /\ UnderRoot(p)
        /\ exists(fs, p)
        /\ p.ext \in {".mp3", ".wav", ".m4a", ".flac", ".ogg"} }

Discoveries == { audio_files[i] : i \in DOMAIN audio_files }

C6_Original ==
    (Discovered /\ (~changed_files_txt.exists \/ ListedPaths = <<>>)) =>
        Discoveries = Scannable

(***************************************************************************)
(* C6, amended.  When changed_files.txt is missing, the discovered audio   *)
(* files are the files at or below voice-record with one of the audio      *)
(* extensions, each once, grouped by extension in the order .mp3, .wav,    *)
(* .m4a, .flac, .ogg, and no other file.  When changed_files.txt exists    *)
(* and names no path, nothing is scanned: no file is discovered or         *)
(* transcribed and main returns after "No audio files to transcribe.".     *)
(***************************************************************************)
ExtRank(e) == CHOOSE i \in DOMAIN audio_extensions : audio_extensions[i] = e

C6_ScanOnlyWithoutListFile ==
    Discovered =>
        /\ ~changed_files_txt.exists =>
              /\ Discoveries = Scannable
              /\ Len(audio_files) = Cardinality(Scannable)
              /\ \A i, j \in DOMAIN audio_files :
                    i < j => ExtRank(audio_files[i].ext) <= ExtRank(audio_files[j].ext)
        /\ (changed_files_txt.exists /\ ListedPaths = <<>>) =>
              /\ audio_files = <<>>
              /\ calls = <<>>
              /\ pc = "done"
              /\ report = <<"No audio files to transcribe.">>

\* a scan that found files in the directory and below it, and left out a
\* file with another extension
C6_Witness ==
    /\ Discovered
    /\ ~changed_files_txt.exists
    /\ Len(audio_files) = 3
    /\ \E i \in DOMAIN audio_files : audio_files[i].dir = "voice-record/sub"
    /\ exists(fs, P("voice-record", "n", ".pdf"))

(***************************************************************************)
(* C7.  As claimed: the exit status is 0 exactly when no input failed.     *)
(***************************************************************************)
C7_Original ==
    (pc = "done" /\ ~LoadCrashed) => (exit_status = <<0>> <=> failures = <<>>)

(***************************************************************************)
(* C7, amended.  The exit status does not depend on the failures: every    *)
(* run in which main returns exits with status 0, also when inputs failed  *)
(* to transcribe; only an exception that leaves main (the model cannot be  *)
(* loaded) gives a non-zero status.                                        *)
(***************************************************************************)
C7_ExitStatusIgnoresFailures ==
    pc = "done" =>
        /\ Len(exit_status) = 1
        /\ exit_status = <<0>> <=> ~Crashed
        /\ failures # <<>> => exit_status = <<0>>

\* a run with a failed input that exits with status 0
C7_Witness ==
    /\ pc = "done"
    /\ failures # <<>>
    /\ exit_status = <<0>>

(***************************************************************************)
(* C8.  As claimed: scanning a voice-record that is missing or no          *)
(* directory ends the run with an explicit failure, before any             *)
(* transcription.                                                          *)
(***************************************************************************)
ScannedNoDirectory ==
    /\ pc = "done"
    /\ ~LoadCrashed
    /\ ~changed_files_txt.exists
    /\ voice_record_dir # "dir"

C8_Original ==
    ScannedNoDirectory => (Crashed /\ exit_status # <<0>> /\ calls = <<>>)

(***************************************************************************)
(* C8, amended.  Scanning a voice-record that is missing or no directory   *)
(* finds nothing and raises nothing: main prints "No audio files found."   *)
(* and returns, the exit status is 0, and no transcription is attempted.   *)
(***************************************************************************)
C8_MissingRootFindsNothing ==
    ScannedNoDirectory =>
        /\ report = <<"No audio files found.">>
        /\ exit_status = <<0>>
        /\ audio_files = <<>>
        /\ calls = <<>>
        /\ writes = <<>>

C8_Witness ==
    /\ ScannedNoDirectory
    /\ voice_record_dir = "file"
    /\ report = <<"No audio files found.">>

(***************************************************************************)
(* C9.  When discovery finds nothing, the run ends without a traceback,    *)
(* with exit status 0, no call of model.transcribe, no file opened for     *)
(* writing, every transcript path as it was, and all counts zero.          *)
(***************************************************************************)
NothingDiscoverable ==
    IF changed_files_txt.exists THEN ListedExisting = {} ELSE Scannable = {}

C10_PersistOverwrites ==
    (writes # <<>> /\ writes[Len(writes)].complete) =>
        LET w == writes[Len(writes)]
        IN fs[w.path] = File(TranscriptChunks(w.audio, w.result))

\* the same transcript persisted twice to the same path
C10_Witness ==
    /\ Len(writes) >= 2
    /\ LET w == writes[Len(writes)]
           v == writes[Len(writes) - 1]
       IN /\ w.complete /\ v.complete
          /\ w.path = v.path
          /\ w.audio = v.audio
          /\ w.result = v.result
          /\ fs[w.path] = File(TranscriptChunks(w.audio, w.result))

(***************************************************************************)
(* C11.  As claimed: the step that transcribes one input,                  *)
(* transcribe_audio_file, changes no file; artifacts are written by a      *)
(* separate step after it.                                                 *)
(***************************************************************************)
InTranscribeAudioFile == pc = "write" \/ (pc = "loop" /\ idx <= Len(audio_files))

C11_Original ==
    [][InTranscribeAudioFile => fs' = fs]_vars

(***************************************************************************)
(* C11, amended.  The call of model.transcribe changes no file and opens   *)
(* none.  The artifact is written by transcribe_audio_file itself, in the  *)
(* statements after the call and only when the call returned: a step that  *)
(* changes a file is a write step of the input whose call just returned,   *)
(* and it changes the transcript path of that input alone.                 *)
(***************************************************************************)
C11_WriteFollowsCallInSameStep ==
    [][/\ calls' # calls => (fs' = fs /\ writes' = writes)
       /\ fs' # fs =>
             /\ pc = "write"
             /\ Len(calls) = idx
             /\ ~calls[idx].raised
             /\ Len(writes') = Len(writes) + 1
             /\ writes'[Len(writes')].at = idx
             /\ \A p \in FsPaths \ {with_suffix_txt(audio_files[idx])} :
                   fs'[p] = fs[p]]_vars

\* model.transcribe has returned for the first input and no artifact is
\* there yet
C11_Witness ==
    /\ pc = "write"
    /\ Len(calls) = idx
    /\ ~calls[idx].raised
    /\ writes = <<>>
    /\ ~exists(fs, with_suffix_txt(audio_files[idx]))

(***************************************************************************)
(* C13.  Inputs are processed one at a time in discovery order: the j-th   *)
(* call of model.transcribe is for the j-th discovered file; when it       *)
(* starts, every earlier input has its outcome (transcript written, or     *)
(* error line printed); at most one input, the last one called, is without *)
(* outcome; artifacts and error lines appear in the order of the inputs.   *)
(***************************************************************************)
Increasing(log) ==
    \A k, l \in DOMAIN log : k < l => log[k].at < log[l].at

\* the inputs given to model.transcribe that have no outcome yet
InProgress == { j \in DOMAIN calls : j \notin SucceededAt \cup FailedAt
                                       /\ \A k \in DOMAIN writes : writes[k].at # j }

C13_SequentialInOrder ==
    /\ Len(calls) <= Len(audio_files)
    /\ \A j \in DOMAIN calls :
          /\ calls[j].path = audio_files[j]
          /\ \A i \in 1..(j - 1) : i \in SucceededAt \cup FailedAt
    /\ InProgress \subseteq {Len(calls)}
    /\ InProgress # {} => pc = "write"
    /\ pc = "loop" => Len(calls) = idx - 1
    /\ pc = "write" => Len(calls) = idx
    /\ Increasing(writes)
    /\ Increasing(failures)
    /\ \A k \in DOMAIN writes :
          /\ writes[k].at \in DOMAIN calls
          /\ writes[k].audio = audio_files[writes[k].at]
          /\ writes[k].path = with_suffix_txt(writes[k].audio)
    /\ \A k \in DOMAIN failures :
          /\ failures[k].at \in DOMAIN calls
          /\ failures[k].path = audio_files[failures[k].at]

\* three inputs: the first persisted, the second failed, the third being
\* written
C13_Witness ==
    /\ pc = "write"
    /\ idx = 3
    /\ Len(calls) = 3
    /\ 1 \in SucceededAt
    /\ 2 \in FailedAt
    /\ InProgress = {3}

(***************************************************************************)
(* C14.  As claimed: no path is given to model.transcribe twice in a run.  *)
(***************************************************************************)
C14_Original ==
    \A i, j \in DOMAIN calls : i # j => calls[i].path # calls[j].path

(***************************************************************************)
(* C14, amended.  Each position of the discovered list is attempted once   *)
(* and gets one outcome, transcript written or error line, which never     *)
(* changes afterwards; nothing is retried.  A path is attempted as often   *)
(* as discovery returned it: once after a directory scan, and as often as  *)
(* changed_files.txt names it, for the list is not de-duplicated.          *)
(***************************************************************************)
Count(seq, x) == Cardinality({ i \in DOMAIN seq : seq[i] = x })
CallPaths == [i \in DOMAIN calls |-> calls[i].path]
At(log, i) == { k \in DOMAIN log : log[k].at = i }

OneOutcomePerPosition ==
    /\ \A p \in FsPaths :
          /\ Count(CallPaths, p) <= Count(audio_files, p)
          /\ Completed => Count(CallPaths, p) = Count(audio_files, p)
          /\ (Discovered /\ changed_files_txt.exists) =>
                Count(audio_files, p) =
                    IF exists(fs, p) THEN Count(ListedPaths, p) ELSE 0
          /\ (Discovered /\ ~changed_files_txt.exists) => Count(audio_files, p) <= 1
    /\ \A i \in DOMAIN audio_files :
          /\ Cardinality(At(writes, i)) <= 1
          /\ Cardinality(At(failures, i)) <= 1
          /\ ~(i \in SucceededAt /\ i \in FailedAt)
          /\ Completed => (i \in SucceededAt \/ i \in FailedAt)

C14_EachPositionOnce ==
    /\ []OneOutcomePerPosition
    /\ [][\A i \in DOMAIN audio_files :
             /\ i \in SucceededAt => i \in SucceededAt'
             /\ i \in FailedAt => i \in FailedAt'
             /\ i \in DOMAIN calls => (i \in DOMAIN calls' /\ calls'[i] = calls[i])]_vars

\* a list that names one path twice: both positions are transcribed
C14_Witness ==
    /\ Completed
    /\ Len(audio_files) = 2
    /\ audio_files[1] = audio_files[2]
    /\ Len(calls) = 2
    /\ calls[1].path = calls[2].path
    /\ SucceededAt \cup FailedAt = {1, 2}

(***************************************************************************)
(* C15.  When a run over distinct inputs has ended, every input counted    *)
(* as succeeded has its own artifact holding its own transcript: no two    *)
(* succeeded inputs share a transcript path.                               *)
(***************************************************************************)
DistinctInputs ==
    \A i, j \in DOMAIN audio_files : i # j => audio_files[i] # audio_files[j]

C15_OwnArtifact ==
    (Completed /\ DistinctInputs) =>
        /\ \A i, j \in SucceededAt :
              i # j => with_suffix_txt(audio_files[i]) # with_suffix_txt(audio_files[j])
        /\ \A k \in DOMAIN writes :
              writes[k].complete =>
                  fs[writes[k].path] = File(TranscriptChunks(writes[k].audio, writes[k].result))

(***************************************************************************)
(* The segment loop of transcribe_audio_file, lines 46-51, over any        *)
(* result['segments'].                                                     *)
(***************************************************************************)
\* greatest number of segments of a result
MaxSegments == 2

\* times in tenths of a second: 0.0, 1.5, 3.0, 59:59.9, 1:01:01.0, 100:00:00.0
SegmentTimes == {0, 15, 30, 35999, 36610, 3600000}

SegmentTexts == { <<" ", "a">>, <<"b", " ">> }

SegmentChoices ==
    { Seg(s, e, t) : s \in SegmentTimes, e \in SegmentTimes, t \in SegmentTexts }

SegmentsInit ==
    /\ segments \in UNION { [1..n -> { g \in SegmentChoices : g.start < g.end }] :
                               n \in 0..MaxSegments }
    /\ written_lines = <<>>
    /\ TranscribeOff
    /\ ConvertOff
    /\ NotebookOff

\* lines 47-51: one iteration of for segment in result['segments']
WriteSegmentLine ==
    /\ Len(written_lines) < Len(segments)
    /\ written_lines' =
          Append(written_lines, SegmentLine(segments[Len(written_lines) + 1]))
    /\ UNCHANGED <<segments, transcribe_vars, convert_vars, notebook_vars>>

SegmentsNext == WriteSegmentLine

SpecSegments == SegmentsInit /\ [][SegmentsNext]_vars

(***************************************************************************)
(* C12.  What a written timestamp must be, read back from its characters.  *)
(***************************************************************************)
DigitValue(c) == CHOOSE i \in 0..9 : Digit[i + 1] = c
IsDigit(c) == \E i \in 0..9 : Digit[i + 1] = c

RECURSIVE NumberOf(_)
NumberOf(ds) ==
    IF ds = <<>> THEN 0
    ELSE 10 * NumberOf(SubSeq(ds, 1, Len(ds) - 1)) + DigitValue(ds[Len(ds)])

\* st reads hours:MM:SS with the fields of the whole seconds of t; the hours
\* have two digits, or more without a leading zero
StampOf(st, t) ==
    LET n == Len(st)
        whole == t \div 10
        h == whole \div 3600
        m == (whole % 3600) \div 60
        sec == whole % 60
    IN /\ n >= 8
       /\ st[n - 2] = ":" /\ st[n - 5] = ":"
       /\ \A i \in (1..n) \ {n - 2, n - 5} : IsDigit(st[i])
       /\ NumberOf(SubSeq(st, 1, n - 6)) = h
       /\ NumberOf(SubSeq(st, n - 4, n - 3)) = m
       /\ NumberOf(SubSeq(st, n - 1, n)) = sec
       /\ m \in 0..59 /\ sec \in 0..59
       /\ h * 3600 + m * 60 + sec = whole
       /\ n > 8 => st[1] # "0"
       /\ n = 8 <=> h < 100

\* the position of a token that occurs once in a line
Where(line, tok) == CHOOSE i \in DOMAIN line : line[i] = tok

\* line reads [start -> end] text with the text of segment g
LineShape(line, g) ==
    /\ Cardinality({ i \in DOMAIN line : line[i] = " -> " }) = 1
    /\ Cardinality({ i \in DOMAIN line : line[i] = "] " }) = 1
    /\ line[1] = "["
    /\ Where(line, " -> ") < Where(line, "] ")
    /\ SubSeq(line, Where(line, "] ") + 1, Len(line)) = strip(g.text) \o <<"\n">>

StartStamp(line) == SubSeq(line, 2, Where(line, " -> ") - 1)

EndStamp(line) == SubSeq(line, Where(line, " -> ") + 1, Where(line, "] ") - 1)

(***************************************************************************)
(* C12.  As claimed: every timestamp has exactly two digits in each of     *)
(* its three fields, for every time.                                       *)
(***************************************************************************)
TwoDigitStampOf(st, t) == StampOf(st, t) /\ Len(st) = 8

MaxWav == 2

Wav(n) == [stem |-> n, suffix |-> "wav"]

\* line 93: wav_file.with_suffix('.mp3')
with_suffix_mp3(wav_file) == [wav_file EXCEPT !.suffix = "mp3"]

WavPaths == { Wav(n) : n \in 1..MaxWav }

Range(s) == { s[i] : i \in DOMAIN s }

ConvertInit ==
    /\ conv_pc = "check_ffmpeg"
    /\ wav_files = <<>>
    /\ wav_present \in SUBSET WavPaths
    /\ mp3_present \in SUBSET { with_suffix_mp3(Wav(1)) }
    /\ conv_idx = 1
    /\ converted_count = 0
    /\ conv_log = <<>>
    /\ TranscribeOff
    /\ SegmentsOff
    /\ NotebookOff

ConvertStep == UNCHANGED <<transcribe_vars, segment_vars, notebook_vars>>

\* lines 14-18 and 64
FfmpegAvailable ==
    /\ conv_pc = "check_ffmpeg"
    /\ conv_pc' = "find"
    /\ UNCHANGED <<wav_files, wav_present, mp3_present, conv_idx,
                   converted_count, conv_log>>
    /\ ConvertStep

\* lines 19-21 and 64-65: sys.exit(1)
FfmpegMissing ==
    /\ conv_pc = "check_ffmpeg"
    /\ conv_pc' = "exit_1"
    /\ UNCHANGED <<wav_files, wav_present, mp3_present, conv_idx,
                   converted_count, conv_log>>
    /\ ConvertStep

\* lines 77-90: rglob gives the WAV files in some order; none ends main
FindWavFiles ==
    /\ conv_pc = "find"
    /\ wav_files' \in Orderings(wav_present)
    /\ conv_pc' = IF wav_present = {} THEN "returned" ELSE "loop"
    /\ UNCHANGED <<wav_present, mp3_present, conv_idx, converted_count,
                   conv_log>>
    /\ ConvertStep

Converting == conv_pc = "loop" /\ conv_idx <= Len(wav_files)

LogEntry(f, outcome, gone) == [file |-> f, ffmpeg |-> outcome, unlinked |-> gone]

\* lines 48-50: the unlink is reached only when subprocess.run returned
Unlink(f, outcome) == IF outcome = "ok" THEN wav_present \ {f} ELSE wav_present

\* lines 44-55 and 95-96: ffmpeg exits with 0 and the original is deleted
ConvertDeletes ==
    /\ Converting
    /\ LET f == wav_files[conv_idx]
       IN /\ mp3_present' = mp3_present \cup {with_suffix_mp3(f)}
          /\ wav_present' = Unlink(f, "ok")
          /\ conv_log' = Append(conv_log, LogEntry(f, "ok", TRUE))
    /\ converted_count' = converted_count + 1
    /\ conv_idx' = conv_idx + 1
    /\ UNCHANGED <<conv_pc, wav_files>>
    /\ ConvertStep

\* lines 44-55 and 95-96: ffmpeg exits with 0, unlink raises OSError (52-53)
ConvertKeeps ==
    /\ Converting
    /\ LET f == wav_files[conv_idx]
       IN /\ mp3_present' = mp3_present \cup {with_suffix_mp3(f)}
          /\ conv_log' = Append(conv_log, LogEntry(f, "ok", FALSE))
    /\ converted_count' = converted_count + 1
    /\ conv_idx' = conv_idx + 1
    /\ UNCHANGED <<conv_pc, wav_files, wav_present>>
    /\ ConvertStep

\* lines 44 and 57-59: ffmpeg exits with another status, CalledProcessError
\* is caught and False returned; the output file may have been written
ConvertFails ==
    /\ Converting
    /\ LET f == wav_files[conv_idx]
       IN /\ mp3_present' \in {mp3_present, mp3_present \cup {with_suffix_mp3(f)}}
          /\ wav_present' = Unlink(f, "failed")
          /\ conv_log' = Append(conv_log, LogEntry(f, "failed", FALSE))
    /\ conv_idx' = conv_idx + 1
    /\ UNCHANGED <<conv_pc, wav_files, converted_count>>
    /\ ConvertStep

\* line 44: subprocess.run raises something else (OSError starting ffmpeg,
\* UnicodeDecodeError reading its output with text=True); line 57 does not
\* catch it and neither does main
ConvertRaises ==
    /\ Converting
    /\ LET f == wav_files[conv_idx]
       IN /\ mp3_present' \in {mp3_present, mp3_present \cup {with_suffix_mp3(f)}}
          /\ wav_present' = Unlink(f, "raised")
          /\ conv_log' = Append(conv_log, LogEntry(f, "raised", FALSE))
    /\ conv_pc' = "traceback"
    /\ UNCHANGED <<wav_files, conv_idx, converted_count>>
    /\ ConvertStep

\* line 98
ConversionComplete ==
    /\ conv_pc = "loop"
    /\ conv_idx > Len(wav_files)
    /\ conv_pc' = "complete"
    /\ UNCHANGED <<wav_files, wav_present, mp3_present, conv_idx,
                   converted_count, conv_log>>
    /\ ConvertStep

ConvertNext ==
    \/ FfmpegAvailable
    \/ FfmpegMissing
    \/ FindWavFiles
    \/ ConvertDeletes
    \/ ConvertKeeps
    \/ ConvertFails
    \/ ConvertRaises
    \/ ConversionComplete

SpecConvert == ConvertInit /\ [][ConvertNext]_vars

ConvertEnded == conv_pc \in {"exit_1", "returned", "complete", "traceback"}

ConvertedOk == { i \in DOMAIN conv_log : conv_log[i].ffmpeg = "ok" }

(***************************************************************************)
(* C16.  An original WAV file is gone only after ffmpeg succeeded on that  *)
(* file; a file whose conversion failed still exists and is not counted;   *)
(* converted_count never exceeds the number of files found; and when the   *)
(* script has ended, every file found has been taken through the           *)
(* conversion, whatever happened to the files before it.                   *)
(***************************************************************************)
C16_FailureKeepsOriginalAndBatch ==
    /\ \A f \in Range(wav_files) \ wav_present :
          \E i \in ConvertedOk : conv_log[i].file = f
    /\ \A i \in DOMAIN conv_log :
          conv_log[i].ffmpeg # "ok" => conv_log[i].file \in wav_present
    /\ converted_count = Cardinality(ConvertedOk)
    /\ converted_count <= Len(wav_files)
    /\ ConvertEnded =>
          \A k \in DOMAIN wav_files :
              \E i \in DOMAIN conv_log : conv_log[i].file = wav_files[k]

(***************************************************************************)
(* execute_on_colab.py: execute_via_colab_api falls back to                *)
(* execute_locally, which falls back to execute_with_python.  Every call   *)
(* of execute_locally is a return statement, so a result goes straight up  *)
(* through all the frames of nb_stack.                                     *)
(***************************************************************************)
\* the number of nested execute_locally frames from which the interpreter
\* raises RecursionError inside import (sys.getrecursionlimit() less the
\* frames of the callers and of the import machinery)
RecursionLimit == 4

NotebookEnvs ==
    [api_key : BOOLEAN, notebook : BOOLEAN, readable : BOOLEAN,
     papermill : BOOLEAN, installs : BOOLEAN, executes : BOOLEAN,
     system_raises : BOOLEAN]

NotebookInit ==
    /\ nb_pc = "execute_via_colab_api"
    /\ nb_env \in NotebookEnvs
    /\ nb_stack = <<>>
    /\ nb_trace = <<>>
    /\ nb_result = <<>>
    /\ TranscribeOff
    /\ SegmentsOff
    /\ ConvertOff

NotebookStep == UNCHANGED <<transcribe_vars, segment_vars, convert_vars>>

\* return execute_locally() at the line site
CallExecuteLocally(site, entered) ==
    /\ nb_pc' = "execute_locally"
    /\ nb_stack' = Append(nb_stack, site)
    /\ nb_trace' = nb_trace \o entered \o <<"execute_locally">>

\* a return value reaches line 95 through every return execute_locally()
ReturnToMain(value) ==
    /\ nb_pc' = "sys.exit"
    /\ nb_result' = <<value>>

\* lines 23-28
NoApiKey ==
    /\ nb_pc = "execute_via_colab_api"
    /\ ~nb_env.api_key
    /\ CallExecuteLocally(28, <<"execute_via_colab_api">>)
    /\ UNCHANGED <<nb_env, nb_result>>
    /\ NotebookStep

\* lines 32-35
NotebookNotFound ==
    /\ nb_pc = "execute_via_colab_api"
    /\ nb_env.api_key
    /\ ~nb_env.notebook
    /\ nb_trace' = Append(nb_trace, "execute_via_colab_api")
    /\ ReturnToMain(FALSE)
    /\ UNCHANGED <<nb_env, nb_stack>>
    /\ NotebookStep

\* lines 37-44
ColabNotImplemented ==
    /\ nb_pc = "execute_via_colab_api"
    /\ nb_env.api_key
    /\ nb_env.notebook
    /\ nb_env.readable
    /\ CallExecuteLocally(44, <<"execute_via_colab_api">>)
    /\ UNCHANGED <<nb_env, nb_result>>
    /\ NotebookStep

\* lines 37-38 raise, lines 46-49
NotebookUnreadable ==
    /\ nb_pc = "execute_via_colab_api"
    /\ nb_env.api_key
    /\ nb_env.notebook
    /\ ~nb_env.readable
    /\ CallExecuteLocally(49, <<"execute_via_colab_api">>)
    /\ UNCHANGED <<nb_env, nb_result>>
    /\ NotebookStep

\* line 57 in the frame on top of nb_stack
ImportRaisesRecursionError == Len(nb_stack) >= RecursionLimit

ImportsPapermill ==
    /\ nb_pc = "execute_locally"
    /\ ~ImportRaisesRecursionError
    /\ nb_env.papermill

\* lines 57-70
NotebookExecuted ==
    /\ ImportsPapermill
    /\ nb_env.executes
    /\ ReturnToMain(TRUE)
    /\ UNCHANGED <<nb_env, nb_stack, nb_trace>>
    /\ NotebookStep

\* lines 62-67 raise, lines 77-80
NotebookExecutionFails ==
    /\ ImportsPapermill
    /\ ~nb_env.executes
    /\ nb_pc' = "execute_with_python"
    /\ nb_trace' = Append(nb_trace, "execute_with_python")
    /\ UNCHANGED <<nb_env, nb_stack, nb_result>>
    /\ NotebookStep

\* line 57 raises ImportError, lines 72-76: pip install, then
\* return execute_locally()
InstallPapermill ==
    /\ nb_pc = "execute_locally"
    /\ ~ImportRaisesRecursionError
    /\ ~nb_env.papermill
    /\ nb_env' = [nb_env EXCEPT !.papermill = nb_env.installs]
    /\ CallExecuteLocally(76, <<>>)
    /\ UNCHANGED nb_result
    /\ NotebookStep

\* line 57 raises RecursionError, which is not an ImportError: lines 77-80
RecursionErrorCaught ==
    /\ nb_pc = "execute_locally"
    /\ ImportRaisesRecursionError
    /\ nb_pc' = "execute_with_python"
    /\ nb_trace' = Append(nb_trace, "execute_with_python")
    /\ UNCHANGED <<nb_env, nb_stack, nb_result>>
    /\ NotebookStep

\* lines 86-89: True whatever status os.system gives
RunWithPython ==
    /\ nb_pc = "execute_with_python"
    /\ ~nb_env.system_raises
    /\ ReturnToMain(TRUE)
    /\ UNCHANGED <<nb_env, nb_stack, nb_trace>>
    /\ NotebookStep

\* lines 87-88 raise, lines 90-92
RunWithPythonRaises ==
    /\ nb_pc = "execute_with_python"
    /\ nb_env.system_raises
    /\ ReturnToMain(FALSE)
    /\ UNCHANGED <<nb_env, nb_stack, nb_trace>>
    /\ NotebookStep

NotebookNext ==
    \/ NoApiKey
    \/ NotebookNotFound
    \/ ColabNotImplemented
    \/ NotebookUnreadable
    \/ NotebookExecuted
    \/ NotebookExecutionFails
    \/ InstallPapermill
    \/ RecursionErrorCaught
    \/ RunWithPython
    \/ RunWithPythonRaises

SpecNotebook == NotebookInit /\ [][NotebookNext]_vars

Entries(function) ==
    Cardinality({ i \in DOMAIN nb_trace : nb_trace[i] = function })

FallbackRank(function) ==
    CASE function = "execute_via_colab_api" -> 1
      [] function = "execute_locally" -> 2
      [] function = "execute_with_python" -> 3

(***************************************************************************)
(* C17.  The script ends with a boolean; the functions are entered in the  *)
(* order execute_via_colab_api, execute_locally, execute_with_python; and  *)
(* the number of times a function is entered has a bound of the program's  *)
(* own: the first and the last once, execute_locally once and once more    *)
(* after papermill was installed.                                          *)
(***************************************************************************)
C17_BoundedFallbackChain ==
    /\ nb_pc = "sys.exit" => nb_result \in { <<TRUE>>, <<FALSE>> }
    /\ \A i, j \in DOMAIN nb_trace :
          i < j => FallbackRank(nb_trace[i]) <= FallbackRank(nb_trace[j])
    /\ Entries("execute_via_colab_api") <= 1
    /\ Entries("execute_locally") <= 2
    /\ Entries("execute_with_python") <= 1

====
